---- MODULE Spec2Model ----
(***************************************************************************)
(* Model of tools/convert_msmt_lists.py: the MSMT17 list-to-layout         *)
(* converter.  The state is the filesystem below the dataset root and the  *)
(* local variables of one invocation of process(root, execute).            *)
(*                                                                         *)
(* Text is a sequence of one-character strings.  A path is the sequence of *)
(* its components below the dataset root (<<>> is the root itself), each   *)
(* component being a name, that is a text without "/".  Filenames in list  *)
(* files are relative and have no "." or ".." component.  There are no     *)
(* symbolic links.  A run that raises stops at pc = "raised".              *)
(***************************************************************************)
EXTENDS Integers, Sequences, FiniteSets, TLC

VARIABLES fs, pc, execute, li, lines, total_missing, actions, ai, rc,
          fs0, log, again

vars == <<fs, pc, execute, li, lines, total_missing, actions, ai, rc,
          fs0, log, again>>

(***************************************************************************)
(* Bounds of the model.                                                    *)
(***************************************************************************)
\* the list files of an initial filesystem hold at most MaxLines lines in all
MaxLines == 2
\* a line of the tokenizer's initial filesystems has at most MaxLineLen
\* characters before its newline
MaxLineLen == 4

(***************************************************************************)
(* Names.                                                                  *)
(***************************************************************************)
LT == <<"list_train.txt">>
LV == <<"list_val.txt">>
LQ == <<"list_query.txt">>
LG == <<"list_gallery.txt">>
BT == <<"bounding_box_train">>
QY == <<"query">>
BE == <<"bounding_box_test">>

\* LIST_MAP with list_val.txt sent to the test bucket
LIST_MAP_ValToTest ==
    << [list |-> LT, dest |-> BT], [list |-> LV, dest |-> BE],
       [list |-> LQ, dest |-> QY], [list |-> LG, dest |-> BE] >>

\* LIST_MAP, in declaration order (dict iteration order of line 59)
LIST_MAP ==
    << [list |-> LT, dest |-> BT], [list |-> LV, dest |-> BT],
       [list |-> LQ, dest |-> QY], [list |-> LG, dest |-> BE] >>

ListNames == {LIST_MAP[i].list : i \in DOMAIN LIST_MAP}
DestNames == {LIST_MAP[i].dest : i \in DOMAIN LIST_MAP}

\* the value find_file returns when nothing is found
None == << <<>> >>

(***************************************************************************)
(* Text functions.                                                         *)
(***************************************************************************)
\* the characters str.strip() removes that occur in the model's alphabet
Whitespace == {" ", "\t", "\n"}

RECURSIVE LStrip(_)
LStrip(s) ==
    IF s # <<>> /\ Head(s) \in Whitespace THEN LStrip(Tail(s)) ELSE s

RECURSIVE RStrip(_)
RStrip(s) ==
    IF s # <<>> /\ s[Len(s)] \in Whitespace
    THEN RStrip(SubSeq(s, 1, Len(s) - 1)) ELSE s

\* str.strip()
Strip(s) == RStrip(LStrip(s))

\* s.split(sep)[0]: the text before the first occurrence of the character sep
RECURSIVE SplitFirst(_, _)
SplitFirst(s, sep) ==
    IF s = <<>> \/ Head(s) = sep THEN <<>>
    ELSE <<Head(s)>> \o SplitFirst(Tail(s), sep)

\* ln.split(' ')[0] of line 70
FirstToken(ln) == SplitFirst(ln, " ")

\* `[ln.strip() for ln in f if ln.strip()]` of line 67
RECURSIVE ReadLines(_)
ReadLines(text) ==
    IF text = <<>> THEN <<>>
    ELSE IF Strip(Head(text)) # <<>>
         THEN <<Strip(Head(text))>> \o ReadLines(Tail(text))
         ELSE ReadLines(Tail(text))

\* the components of a relative path text: split at "/", empty ones dropped
RECURSIVE PathParts(_)
PathParts(s) ==
    IF s = <<>> THEN <<>>
    ELSE IF Head(s) = "/" THEN PathParts(Tail(s))
    ELSE LET first == SplitFirst(s, "/")
         IN  <<first>> \o PathParts(SubSeq(s, Len(first) + 1, Len(s)))

\* Path(fname).name
PathName(fname) ==
    LET parts == PathParts(fname)
    IN  IF parts = <<>> THEN <<>> ELSE parts[Len(parts)]

\* fnmatch of a name against a glob pattern; "*" is the only metacharacter of
\* the model's alphabet
RECURSIVE Fnmatch(_, _)
Fnmatch(pat, name) ==
    IF pat = <<>> THEN name = <<>>
    ELSE IF Head(pat) = "*"
         THEN \/ Fnmatch(Tail(pat), name)
              \/ name # <<>> /\ Fnmatch(pat, Tail(name))
         ELSE /\ name # <<>>
              /\ Head(name) = Head(pat)
              /\ Fnmatch(Tail(pat), Tail(name))

(***************************************************************************)
(* The filesystem below the dataset root: a function from the paths that   *)
(* exist to what is there, a directory or a regular file with its content. *)
(***************************************************************************)
Dir == [kind |-> "dir", data |-> <<>>]
File(content) == [kind |-> "file", data |-> content]

\* Path.exists()
Exists(f, p) == p \in DOMAIN f
\* Path.is_file()
IsFile(f, p) == p \in DOMAIN f /\ f[p].kind = "file"
IsDir(f, p) == p \in DOMAIN f /\ f[p].kind = "dir"

Parent(p) == SubSeq(p, 1, Len(p) - 1)

\* Path.mkdir(parents=True, exist_ok=True) of a directory directly below the
\* root, which exists whenever the copy loop runs
Mkdir(f, d) == IF Exists(f, d) THEN f ELSE (d :> Dir) @@ f

\* shutil.copy2(src, dst) for a regular file src and a dst that does not exist
Copy2(f, src, dst) == (dst :> File(f[src].data)) @@ f

(***************************************************************************)
(* find_file(root, fname): the set of values the call can return.  The     *)
(* order in which rglob yields its matches is the traversal order of the   *)
(* filesystem, so the first match that is a file can be any such match.    *)
(***************************************************************************)
RglobFiles(f, basename) ==
    {p \in DOMAIN f : /\ p # <<>>
                      /\ Fnmatch(basename, p[Len(p)])
                      /\ IsFile(f, p)}

find_file(f, fname) ==
    LET cand == PathParts(fname)
        hits == RglobFiles(f, PathName(fname))
    IN  IF Exists(f, cand) THEN {cand}
        ELSE IF hits # {} THEN hits
        ELSE {None}

(***************************************************************************)
(* Initial filesystems.                                                    *)
(***************************************************************************)
NA == <<"a">>
NS == <<"s">>
NStar == <<"a", "*">>

\* the raw lines a list file can hold
LineSet ==
    { <<"a", "\n">>,
      <<" ", "s", "/", "a", " ", "0", "\n">>,
      <<"a", "*", "\n">> }

\* a data file holds its own original path as content, so that the initial
\* data files have pairwise different contents
DataFile(p) == p :> File(p)

EmptyFs == <<>> :> Dir

\* what can be at root/a
TopChoices == { EmptyFs, DataFile(<<NA>>), <<NA>> :> Dir }

\* what can be below root/s
SubChoices ==
    { EmptyFs,
      (<<NS>> :> Dir) @@ DataFile(<<NS, NA>>),
      (<<NS>> :> Dir) @@ DataFile(<<NS, NStar>>),
      (<<NS>> :> Dir) @@ DataFile(<<NS, NA>>) @@ DataFile(<<NS, NStar>>) }

\* what the destination directories can hold before the first run
DestChoices ==
    { EmptyFs,
      (<<BT>> :> Dir) @@ DataFile(<<BT, NA>>),
      (<<BT>> :> Dir) @@ (<<BT, NA>> :> Dir),
      DataFile(<<QY>>) }

\* the list files: entries is a sequence of <<index into LIST_MAP, raw line>>,
\* sorted by index; a list file exists when it has a line
Sorted(entries) ==
    \A i \in 1..(Len(entries) - 1) : entries[i][1] <= entries[i + 1][1]

RECURSIVE LinesOf(_, _)
LinesOf(entries, i) ==
    IF entries = <<>> THEN <<>>
    ELSE IF Head(entries)[1] = i
         THEN <<Head(entries)[2]>> \o LinesOf(Tail(entries), i)
         ELSE LinesOf(Tail(entries), i)

RECURSIVE ListFiles(_, _)
ListFiles(entries, i) ==
    IF i > Len(LIST_MAP) THEN EmptyFs
    ELSE IF LinesOf(entries, i) = <<>> THEN ListFiles(entries, i + 1)
    ELSE (<<LIST_MAP[i].list>> :> File(LinesOf(entries, i)))
         @@ ListFiles(entries, i + 1)

ListChoices ==
    { ListFiles(entries, 1) :
        entries \in { e \in UNION { [1..n -> (DOMAIN LIST_MAP) \X LineSet] :
                                    n \in 0..MaxLines } : Sorted(e) } }

RootDirs ==
    { list @@ top @@ sub @@ dest :
        list \in ListChoices, top \in TopChoices, sub \in SubChoices,
        dest \in DestChoices }

\* the dataset roots that have not been converted yet: no destination
\* directory exists
FreshRootDirs ==
    { list @@ top @@ sub :
        list \in ListChoices, top \in TopChoices, sub \in SubChoices }

\* the dataset root is a directory, is missing, or is a regular file
InitialFs == RootDirs \cup { << >>, <<>> :> File(<<>>) }

\* the initial filesystems of the tokenizer's specification: root/a and a
\* list_train.txt of one line, which is any text of at most MaxLineLen
\* characters among "a", space and tab, and its newline
LineChars == {"a", " ", "\t"}

TokenizerFs ==
    { DataFile(<<NA>>) @@ (<<LT>> :> File(<<text \o <<"\n">> >>)) @@ EmptyFs :
        text \in UNION { [1..n -> LineChars] : n \in 0..MaxLineLen } }

(***************************************************************************)
(* process(root, execute)                                                  *)
(***************************************************************************)
\* entry of process: lines 50-57; rc = -1 while process has not returned
Begin(e) ==
    /\ execute' = e
    /\ fs0' = fs
    /\ total_missing' = 0
    /\ actions' = <<>>
    /\ log' = <<>>
    /\ lines' = <<>>
    /\ ai' = 0
    /\ IF ~Exists(fs, <<>>)
       THEN /\ rc' = 1
            /\ pc' = "done"
            /\ li' = 0
       ELSE /\ rc' = -1
            /\ pc' = "lists"
            /\ li' = 1
    /\ UNCHANGED fs

InitWith(filesystems) ==
    /\ fs \in filesystems
    /\ pc = "idle"
    /\ execute = FALSE
    /\ li = 0
    /\ lines = <<>>
    /\ total_missing = 0
    /\ actions = <<>>
    /\ ai = 0
    /\ rc = -1
    /\ fs0 = fs
    /\ log = <<>>
    /\ again = FALSE

Init == InitWith(InitialFs)

InitTokenizer == InitWith(TokenizerFs)

InitRerun == InitWith(FreshRootDirs)

\* the first invocation
Start(e) ==
    /\ pc = "idle"
    /\ Begin(e)
    /\ UNCHANGED again

\* lines 59-67: the next list file is skipped or read
NextList ==
    /\ pc = "lists"
    /\ li <= Len(LIST_MAP)
    /\ LET list_path == <<LIST_MAP[li].list>>
       IN  IF ~Exists(fs, list_path)
           THEN /\ li' = li + 1
                /\ UNCHANGED <<pc, lines>>
           ELSE IF ~IsFile(fs, list_path)
           THEN /\ pc' = "raised"
                /\ UNCHANGED <<li, lines>>
           ELSE LET read == ReadLines(fs[list_path].data)
                IN  /\ lines' = read
                    /\ IF read = <<>>
                       THEN li' = li + 1 /\ pc' = pc
                       ELSE li' = li /\ pc' = "lines"
    /\ UNCHANGED <<fs, execute, total_missing, actions, ai, rc, fs0, log, again>>

\* lines 68-78: one line of the current list file
PlanLine ==
    /\ pc = "lines"
    /\ lines # <<>>
    /\ LET ln == Head(lines)
           fname == FirstToken(ln)
           dst == <<LIST_MAP[li].dest, PathName(fname)>>
       IN  \E src \in find_file(fs, fname) :
             /\ IF src = None
                THEN /\ total_missing' = total_missing + 1
                     /\ UNCHANGED actions
                ELSE /\ actions' = Append(actions, [src |-> src, dst |-> dst])
                     /\ UNCHANGED total_missing
             /\ log' = Append(log, [list |-> li, ln |-> ln, fname |-> fname,
                                    src |-> src, dst |-> dst])
    /\ lines' = Tail(lines)
    /\ IF Tail(lines) = <<>>
       THEN li' = li + 1 /\ pc' = "lists"
       ELSE li' = li /\ pc' = pc
    /\ UNCHANGED <<fs, execute, ai, rc, fs0, again>>

\* Summary with the dry-run return of lines 95-97 left out
Summary_IgnoresExecute ==
    /\ pc = "lists"
    /\ li > Len(LIST_MAP)
    /\ IF actions = <<>>
       THEN /\ rc' = 0
            /\ pc' = "done"
            /\ UNCHANGED ai
       ELSE /\ pc' = "copy"
            /\ ai' = 1
            /\ UNCHANGED rc
    /\ UNCHANGED <<fs, execute, li, lines, total_missing, actions, fs0, log, again>>

\* Summary returning 1 when files are missing
Summary_MissingFails ==
    /\ pc = "lists"
    /\ li > Len(LIST_MAP)
    /\ IF actions = <<>> \/ ~execute \/ total_missing > 0
       THEN /\ rc' = (IF total_missing > 0 THEN 1 ELSE 0)
            /\ pc' = "done"
            /\ UNCHANGED ai
       ELSE /\ pc' = "copy"
            /\ ai' = 1
            /\ UNCHANGED rc
    /\ UNCHANGED <<fs, execute, li, lines, total_missing, actions, fs0, log, again>>

\* lines 80-97: the reports after the last list; the dry run ends here
Summary ==
    /\ pc = "lists"
    /\ li > Len(LIST_MAP)
    /\ IF actions = <<>> \/ ~execute
       THEN /\ rc' = 0
            /\ pc' = "done"
            /\ UNCHANGED ai
       ELSE /\ pc' = "copy"
            /\ ai' = 1
            /\ UNCHANGED rc
    /\ UNCHANGED <<fs, execute, li, lines, total_missing, actions, fs0, log, again>>

\* CopyOne without the `if not dst.exists()` of line 102
CopyOne_Overwrite(f, a) ==
    LET parent == Parent(a.dst)
        made == Mkdir(f, parent)
    IN  IF Exists(f, parent) /\ ~IsDir(f, parent)
        THEN [fs |-> f, ok |-> FALSE]
        ELSE IF IsFile(made, a.src) /\ ~IsDir(made, a.dst)
        THEN [fs |-> Copy2(made, a.src, a.dst), ok |-> TRUE]
        ELSE [fs |-> made, ok |-> FALSE]

\* CopyOne with mkdir(parents=True) without exist_ok=True
CopyOne_MkdirNotExistOk(f, a) ==
    LET parent == Parent(a.dst)
        made == Mkdir(f, parent)
    IN  IF Exists(f, parent)
        THEN [fs |-> f, ok |-> FALSE]
        ELSE IF Exists(made, a.dst)
        THEN [fs |-> made, ok |-> TRUE]
        ELSE IF IsFile(made, a.src)
        THEN [fs |-> Copy2(made, a.src, a.dst), ok |-> TRUE]
        ELSE [fs |-> made, ok |-> FALSE]

\* lines 100-103: what one iteration of the copy loop does to the filesystem
\* and whether it raises
CopyOne(f, a) ==
    LET parent == Parent(a.dst)
        made == Mkdir(f, parent)
    IN  IF Exists(f, parent) /\ ~IsDir(f, parent)
        THEN [fs |-> f, ok |-> FALSE]
        ELSE IF Exists(made, a.dst)
        THEN [fs |-> made, ok |-> TRUE]
        ELSE IF IsFile(made, a.src)
        THEN [fs |-> Copy2(made, a.src, a.dst), ok |-> TRUE]
        ELSE [fs |-> made, ok |-> FALSE]

\* lines 100-105: one planned action; after the last one process returns 0
CopyStep ==
    /\ pc = "copy"
    /\ ai <= Len(actions)
    /\ LET r == CopyOne(fs, actions[ai])
       IN  /\ fs' = r.fs
           /\ IF ~r.ok
              THEN /\ pc' = "raised"
                   /\ UNCHANGED <<ai, rc>>
              ELSE IF ai = Len(actions)
              THEN /\ pc' = "done"
                   /\ rc' = 0
                   /\ UNCHANGED ai
              ELSE /\ ai' = ai + 1
                   /\ UNCHANGED <<pc, rc>>
    /\ UNCHANGED <<execute, li, lines, total_missing, actions, fs0, log, again>>

\* process(root, execute=True) is invoked again on the same root after an
\* execute run that completed
Rerun ==
    /\ pc = "done"
    /\ rc = 0
    /\ execute
    /\ Begin(TRUE)
    /\ again' = TRUE

Next ==
    \/ \E e \in BOOLEAN : Start(e)
    \/ NextList
    \/ PlanLine
    \/ Summary
    \/ CopyStep

\* one invocation of process on any initial filesystem
Spec == Init /\ [][Next]_vars

\* one invocation on the filesystems that exercise the reading of a line
SpecTokenizer == InitTokenizer /\ [][Next]_vars

NextRerun ==
    \/ Next
    \/ Rerun

\* an invocation followed by any number of execute runs on the same root
SpecRerun == InitRerun /\ [][NextRerun]_vars

(***************************************************************************)
(* Properties.  fs0 is the filesystem as the current invocation found it;  *)
(* log holds one record per line the invocation has handled.               *)
(***************************************************************************)
Completed == pc = "done" /\ rc = 0
Planned == li > Len(LIST_MAP)
ExecuteCompleted == Completed /\ execute

\* the first action of the plan with the destination dst
RECURSIVE FirstFor(_, _)
FirstFor(plan, dst) ==
    IF Head(plan).dst = dst THEN Head(plan) ELSE FirstFor(Tail(plan), dst)

\* pairs of planned actions with different sources and one destination that
\* did not exist when the run began
Collisions ==
    { pair \in (DOMAIN actions) \X (DOMAIN actions) :
        /\ pair[1] < pair[2]
        /\ actions[pair[1]].dst = actions[pair[2]].dst
        /\ actions[pair[1]].src # actions[pair[2]].src
        /\ ~Exists(fs0, actions[pair[1]].dst) }

\* C1: a dry run (execute = false) leaves the filesystem as it found it, at
\* every point of the run and whatever the size of the plan.
C1_DryRunReadOnly ==
    (pc # "idle" /\ ~execute) => fs = fs0

C1_Witness ==
    Completed /\ ~execute /\ Len(actions) >= 2

\* C2: an execute run never changes a regular file that existed before the
\* run; in particular an existing destination keeps its content when the
\* planned source has another content.
C2_ExistingFilesKept ==
    execute =>
        \A p \in DOMAIN fs0 :
            IsFile(fs0, p) => (p \in DOMAIN fs /\ fs[p] = fs0[p])

C2_Witness ==
    /\ ExecuteCompleted
    /\ \E i \in DOMAIN actions :
         /\ IsFile(fs0, actions[i].dst)
         /\ IsFile(fs0, actions[i].src)
         /\ fs0[actions[i].src].data # fs0[actions[i].dst].data

\* C3: process returns 1 exactly when the dataset root does not exist, and
\* then it has read no list, planned nothing and changed nothing; every
\* other run that completes returns 0, also with missing files.
C3_ReturnCode ==
    /\ (rc # -1) <=> (pc = "done")
    /\ pc = "done" =>
         /\ rc \in {0, 1}
         /\ (rc = 1) <=> ~Exists(fs0, <<>>)
         /\ rc = 1 =>
              /\ li = 0
              /\ log = <<>>
              /\ actions = <<>>
              /\ total_missing = 0
              /\ fs = fs0

C3_Witness ==
    ExecuteCompleted /\ total_missing > 0 /\ actions # <<>>

\* C4 as stated: of two planned actions with different sources and the same
\* destination, which did not exist before the run, the later one decides
\* the content of the destination after a completed execute run.
C4_LastWriteWins ==
    ExecuteCompleted =>
        \A pair \in Collisions :
            fs[actions[pair[2]].dst] = File(fs0[actions[pair[2]].src].data)

\* C4 as amended: the destination holds the content of the source of the
\* first action of the plan with that destination (first write wins).
C4_FirstWriteWins ==
    ExecuteCompleted =>
        \A pair \in Collisions :
            LET dst == actions[pair[2]].dst
            IN  /\ dst \in DOMAIN fs
                /\ fs[dst] = File(fs0[FirstFor(actions, dst).src].data)

C4_Witness ==
    ExecuteCompleted /\ Collisions # {}

\* the first whitespace-delimited token of a raw line
RECURSIVE TakeToken(_)
TakeToken(s) ==
    IF s = <<>> \/ Head(s) \in Whitespace THEN <<>>
    ELSE <<Head(s)>> \o TakeToken(Tail(s))

RECURSIVE TokensOfText(_)
TokensOfText(text) ==
    IF text = <<>> THEN <<>>
    ELSE IF LStrip(Head(text)) = <<>> THEN TokensOfText(Tail(text))
    ELSE <<TakeToken(LStrip(Head(text)))>> \o TokensOfText(Tail(text))

RECURSIVE TokensOfLists(_, _)
TokensOfLists(f, names) ==
    IF names = <<>> THEN <<>>
    ELSE (IF IsFile(f, <<Head(names)>>)
          THEN TokensOfText(f[<<Head(names)>>].data) ELSE <<>>)
         \o TokensOfLists(f, Tail(names))

\* C5: the filenames process uses are, in order, the first
\* whitespace-delimited tokens of the non-blank lines of the list files that
\* are present, whitespace being space, tab or newline.
C5_FirstWhitespaceToken ==
    Planned =>
        [i \in DOMAIN log |-> log[i].fname]
            = TokensOfLists(fs0, <<LT, LV, LQ, LG>>)

\* the regular files below the root whose name is the basename of fname
FilesNamed(f, fname) ==
    {p \in DOMAIN f : p # <<>> /\ IsFile(f, p) /\ p[Len(p)] = PathName(fname)}

\* C6: find_file returns root/fname when that path exists; when it does not
\* and exactly one file below the root has the basename of fname, it returns
\* the path of that file.
C6_ExactPathElseUniqueFile ==
    \A i \in DOMAIN log :
        LET e == log[i]
            cand == PathParts(e.fname)
        IN  /\ Exists(fs0, cand) => e.src = cand
            /\ (~Exists(fs0, cand) /\ Cardinality(FilesNamed(fs0, e.fname)) = 1)
                 => e.src \in FilesNamed(fs0, e.fname)

\* fname names nothing below the root: not as a path, not as a basename
AbsentEntirely(f, fname) ==
    /\ ~Exists(f, PathParts(fname))
    /\ \A p \in DOMAIN f : p # <<>> => p[Len(p)] # PathName(fname)

\* C7: a referenced filename that is absent entirely under the root is not
\* found, gets no planned action and is counted in missing-count exactly once
\* in the run.
C7_AbsentCountedOnce ==
    Planned =>
        /\ total_missing = Cardinality({i \in DOMAIN log : log[i].src = None})
        /\ \A i \in DOMAIN log :
             AbsentEntirely(fs0, log[i].fname) =>
               /\ log[i].src = None
               /\ \A k \in DOMAIN actions : actions[k].dst # log[i].dst
               /\ Cardinality({j \in DOMAIN log :
                                 /\ log[j].fname = log[i].fname
                                 /\ log[j].src = None}) = 1

\* C8: at every point of a run the source of every planned action was a
\* regular file below the root when the action was added, and no action is
\* planned for a line whose file was not found.
C8_PlannedSourcesAreFiles ==
    /\ \A k \in DOMAIN actions : IsFile(fs0, actions[k].src)
    /\ Len(actions) = Cardinality({i \in DOMAIN log : log[i].src # None})

\* the destination subdirectory C9 names for each list file
ClaimedDest(i) ==
    CASE LIST_MAP[i].list = LT -> BT
      [] LIST_MAP[i].list = LV -> BT
      [] LIST_MAP[i].list = LQ -> QY
      [] LIST_MAP[i].list = LG -> BE

ClaimedPath(e) == <<ClaimedDest(e.list), PathName(e.fname)>>

\* C9 as stated: after a completed execute run a regular file exists at
\* root/<dest_subdir>/<basename> for every line whose filename was resolved
\* to a regular file, also when other files are missing.
C9_ResolvedLinesHaveFile ==
    ExecuteCompleted =>
        \A i \in DOMAIN log :
            IsFile(fs0, log[i].src) => IsFile(fs, ClaimedPath(log[i]))

\* C9 as amended: the path exists, and it is a regular file unless it was a
\* directory before the run, which the run leaves in place.
C9_ResolvedLinesHaveEntry ==
    ExecuteCompleted =>
        \A i \in DOMAIN log :
            log[i].src # None =>
              /\ Exists(fs, ClaimedPath(log[i]))
              /\ IsFile(fs, ClaimedPath(log[i]))
                   \/ IsDir(fs0, ClaimedPath(log[i]))

C9_Witness ==
    /\ ExecuteCompleted
    /\ total_missing > 0
    /\ \E i \in DOMAIN log :
         /\ log[i].src # None
         /\ ~Exists(fs0, ClaimedPath(log[i]))

====
